---- MODULE Spec2Model ----
(***************************************************************************)
(* Batched beam-search decoding loop of the RNN-Transducer label-looping   *)
(* computer (BeamBatchedRNNTLoopLabelsComputer.loop_labels_torch) together *)
(* with its hypothesis ledger.                                             *)
(*                                                                         *)
(* Conventions.  Encoder frames are numbered from 0 as in the source.      *)
(* Batch elements and beam slots are numbered from 1 (TLA+ sequences);     *)
(* token ids are 1..VocabSize for the labels and VocabSize + 1 for blank,  *)
(* i.e. the source's 0-based token id i is the model's i + 1.  Flat        *)
(* candidate indices (the idx of topk) are kept 0-based so that the        *)
(* source's // and % arithmetic is modelled as written.                    *)
(* Log-probabilities are integers <= 0 (a scaled log); float("-inf") is    *)
(* the sentinel NegInf.                                                    *)
(***************************************************************************)
EXTENDS Integers, Sequences, FiniteSets, TLC

\* ---------------------------------------------------------------- bounds
\* largest batch, longest utterance, largest padded encoder output
\* (batch_size * max_time) and largest beam_size argument that are explored
MaxBatch == 2
MaxTime == 3
MaxFrames == 4
MaxBeamRequest == 3
\* largest beam_size argument and largest vocabulary explored for __init__ alone
MaxCtorBeam == 8
MaxCtorVocab == 8
\* largest beam_size argument explored for the ragged batch
MaxRaggedBeam == 2
\* largest utterance length and beam_size of a decode call whose blank index
\* is any vocabulary index
MaxBlankTime == 2
MaxBlankBeam == 2

\* largest capture_iteration, most optimizer_step calls and most setup calls
\* explored for the CUDA graph callback
MaxCaptureIteration == 13
MaxStepCalls == 15
MaxSetups == 2

\* the last capture_iteration >= 0 that CUDAGraphCallback.__init__ refuses
LastRefusedIteration == 11

\* largest batch_size and max_time of a LoopLabelsState and of a request
MaxStateDim == 2

\* torch.device.index of a device given without an index (None)
NoIndex == -1

\* float("-inf"), the exclusion sentinel of the blank masking
NegInf == -1000

\* joint.vocabulary: the non-blank labels {a, b}
Vocabulary == {1, 2}
VocabSize == Cardinality(Vocabulary)
\* the logits' last index (python index -1)
LastIndex == VocabSize + 1

\* log_softmax outputs the joint network may produce, as <<a, b, blank>>:
\* a > b > blank, a > blank > b, blank > a > b
LogpVectors == { <<-1, -2, -3>>, <<-1, -3, -2>>, <<-2, -3, -1>> }

\* encoder_output_length of the ragged batch: two utterances of unequal length
RaggedLengths == << 2, 3 >>
\* log_softmax outputs the joint network may produce on the ragged batch
RaggedLogpVectors == { <<-1, -2, -3>>, <<-2, -3, -1>> }

VARIABLES
  pc,                      \* position in loop_labels_torch
  outcome,                 \* "running", or how the call ended
  batch_size,              \* encoder_output.shape[0]
  max_time,                \* encoder_output.shape[1]
  encoder_output_length,   \* valid frames per batch element
  beam_request,            \* beam_size argument of __init__
  beam_size,               \* self.beam_size
  blank_index,             \* self._blank_index
  joint_memo,              \* the joint network: (b, frame, decoder output) -> logps
  joint_queries,           \* frames looked up in encoder_output_projected, <<b, t>>
  predict_calls,           \* number of decoder.predict invocations
  state,                   \* decoder state per (flat) slot: the labels it consumed
  decoder_output,          \* decoder output per (flat) slot
  time_indices,            \* time_indices tensor
  labels,                  \* labels fed to the next decoder.predict
  labels_list,
  label_logps_list,
  blank_logps_list,
  blank_mask,
  active_mask,
  batched_hyps,            \* the hypothesis ledger (BeamBatchedHyps)
  last_beam_idx,           \* flat permutation handed to batch_rearrange_states
  iter_count,
  big_iter_count,
  encoder_projections,     \* number of joint.project_encoder invocations
  call_args,               \* arguments of a call of __init__ or need_reinit
  call_result,             \* what that call produced
  capture_iteration,       \* capture_iteration argument / CUDAGraphState.capture_iteration
  callback,                \* CUDAGraphCallback.__init__: "none", "constructed", "raised"
  graph_state,             \* whether a CUDAGraphState exists: "none", "made"
  current_iteration,       \* CUDAGraphState.current_iteration
  step_calls,              \* calls of the patched optimizer_step
  eager_runs,              \* eager runs of __orig_optimizer_step__
  captures,                \* graph captures
  replays,                 \* state.graph.replay() calls
  autocast_init,           \* torch.autocast.__init__
  autocast_orig,           \* torch.autocast.__orig_init__
  ddp_init,                \* DistributedDataParallel.__init__
  ddp_orig,                \* DistributedDataParallel.__orig_init__
  pending_setups,          \* setup calls not yet matched by a teardown
  setup_calls,             \* setup calls so far
  cb_error                 \* exception raised by a callback hook, or "none"

vars == << pc, outcome, batch_size, max_time, encoder_output_length, beam_request,
           beam_size, blank_index, joint_memo, joint_queries, predict_calls, state,
           decoder_output, time_indices, labels, labels_list, label_logps_list,
           blank_logps_list, blank_mask, active_mask, batched_hyps, last_beam_idx,
           iter_count, big_iter_count, encoder_projections, call_args, call_result,
           capture_iteration, callback, graph_state, current_iteration, step_calls,
           eager_runs, captures, replays, autocast_init, autocast_orig, ddp_init,
           ddp_orig, pending_setups, setup_calls, cb_error >>

\* the state of the CUDA graph callback and of the classes it patches
callbackVars ==
  << capture_iteration, callback, graph_state, current_iteration, step_calls,
     eager_runs, captures, replays, autocast_init, autocast_orig, ddp_init,
     ddp_orig, pending_setups, setup_calls, cb_error >>

\* no CUDAGraphCallback in the process: nothing constructed, nothing patched
NoCallback ==
  /\ capture_iteration = 0 - 1
  /\ callback = "none"
  /\ graph_state = "none"
  /\ current_iteration = 0
  /\ step_calls = 0
  /\ eager_runs = 0
  /\ captures = 0
  /\ replays = 0
  /\ autocast_init = "original"
  /\ autocast_orig = "absent"
  /\ ddp_init = "original"
  /\ ddp_orig = "absent"
  /\ pending_setups = 0
  /\ setup_calls = 0
  /\ cb_error = "none"

\* ------------------------------------------------------------- helpers
Min2(a, b) == IF a <= b THEN a ELSE b

SeqMax(s) == CHOOSE m \in {s[i] : i \in DOMAIN s} : \A i \in DOMAIN s : s[i] <= m

\* the requested beam size taken as it is
UnclampedBeamSize(requested, vocab_size) == requested

\* the vocabulary size taken whatever was requested
VocabBeamSize(requested, vocab_size) == vocab_size

\* self.beam_size = min(beam_size, vocab_size)
EffectiveBeamSize(requested, vocab_size) == Min2(requested, vocab_size)

\* torch.topk(vals, k): every index sequence it may return (order among equal
\* values is not specified by the library)
TopKChoices(vals, k) ==
  LET n == Len(vals) IN
  { s \in [1..k -> 1..n] :
      /\ \A i, j \in 1..k : i # j => s[i] # s[j]
      /\ \A i \in 1..(k - 1) : vals[s[i]] >= vals[s[i + 1]]
      /\ \A j \in 1..n : (\A i \in 1..k : s[i] # j) => vals[j] <= vals[s[k]] }

\* logps.topk(self.beam_size, dim=-1) over one log_softmax vector: the token
\* ids (1-based) in descending order of log-probability
TopKLabels(lp, k) == CHOOSE s \in TopKChoices(lp, k) : TRUE

\* the values that go with TopKLabels
TopKLogps(lp, k) == LET s == TopKLabels(lp, k) IN [ j \in 1..k |-> lp[s[j]] ]

\* logps[..., -1]
BlankLogp(lp) == lp[Len(lp)]


RECURSIVE SeqProduct(_)
\* all sequences p with p[i] \in S[i]: one independent choice per batch element
SeqProduct(S) ==
  IF Len(S) = 0 THEN { <<>> }
  ELSE { Append(p, x) : p \in SeqProduct(SubSeq(S, 1, Len(S) - 1)), x \in S[Len(S)] }

Batch == 1..batch_size
Beam == 1..beam_size

\* ------------------------------------------- collaborators (black boxes)
\* joint.joint_after_projection + log_softmax: a function of the encoder frame
\* (b, t) and of the decoder output; fixed on first use, then replayed
JointOutputs ==
  IF encoder_output_length = RaggedLengths THEN RaggedLogpVectors ELSE LogpVectors

JointExtensions(keys) == [ (keys \ DOMAIN joint_memo) -> JointOutputs ]

Joint(memo, b, t, dec) == memo[<< b, t, dec >>]

\* decoder.predict(labels, state): the new state is the old state extended by
\* the label it consumed; the decoder output is a function of that state
Predict(st, label) == Append(st, label)

\* ------------------------------------------------------------- the ledger
\* BeamBatchedHyps, freshly constructed: nothing emitted, frame cursor at 0
EmptyHyp == [ labels |-> <<>>, score |-> 0, last_timestep |-> 0, timesteps |-> <<>> ]

\* BeamBatchedHyps.update_beam for one new slot: extend the parent by one label,
\* add the increment to its score, record the frame of the label and advance
\* last_timestep by num_blanks + 1
LedgerExtend(parent, label, label_logp, blank_logp, num_blanks) ==
  [ labels        |-> Append(parent.labels, label),
    score         |-> parent.score + label_logp + blank_logp,
    last_timestep |-> parent.last_timestep + num_blanks + 1,
    timesteps     |-> Append(parent.timesteps, parent.last_timestep + num_blanks) ]

\* BeamBatchedHyps.append_labels: the first label of every slot of a fresh ledger
LedgerAppendLabels(sel) ==
  [ k \in 1..Len(sel) |->
      LedgerExtend(EmptyHyp, sel[k].label, sel[k].label_logp, sel[k].blank_logp,
                   sel[k].num_blanks) ]

\* BeamBatchedHyps.update_beam: slot k continues parent slot beam_idx[k]
LedgerUpdateBeam(hyps, sel) ==
  [ k \in 1..Len(sel) |->
      LedgerExtend(hyps[sel[k].beam_index + 1], sel[k].label, sel[k].label_logp,
                   sel[k].blank_logp, sel[k].num_blanks) ]

\* active_mask = batched_hyps.last_timestep < encoder_output_length.unsqueeze(1)
ActiveMask(hyps, lens) ==
  [ b \in DOMAIN hyps |-> [ k \in DOMAIN hyps[b] |-> hyps[b][k].last_timestep < lens[b] ] ]

\* active_mask.any()
AnyActive(mask) == \E b \in DOMAIN mask : \E k \in DOMAIN mask[b] : mask[b][k]

\* torch.minimum(time_indices, encoder_output_length - 1)
SafeTimeIndex(t, len) == Min2(t, len - 1)

\* torch.cumsum over the depth axis: c[d] = xs[1] + ... + xs[d]
RECURSIVE CumSum(_)
CumSum(xs) ==
  IF Len(xs) = 0 THEN <<>>
  ELSE LET c == CumSum(SubSeq(xs, 1, Len(xs) - 1)) IN
       Append(c, (IF Len(c) = 0 THEN 0 ELSE c[Len(c)]) + xs[Len(xs)])

\* blank endings left in the ranking
MaskNothing(label, total) == total

\* total_logps[blank_mask] = float("-inf")
MaskBlank(label, total) == IF label = blank_index THEN NegInf ELSE total

\* the shapes of the stacked label and blank log-probabilities must agree
\* for `label_logps + blank_logps` and for the boolean mask indexing
ShapesAgree(ll, bl) == Len(ll) = Len(bl)

Init ==
  /\ pc = "seed"
  /\ outcome = "running"
  /\ batch_size \in 1..MaxBatch
  /\ encoder_output_length \in [1..batch_size -> 1..MaxTime]
  \* the encoder output may be padded beyond the longest utterance
  /\ max_time \in SeqMax(encoder_output_length)..MaxTime
  /\ batch_size * max_time <= MaxFrames
  /\ beam_request \in 1..MaxBeamRequest
  /\ beam_size = EffectiveBeamSize(beam_request, VocabSize)
  /\ blank_index = LastIndex
  /\ joint_memo = <<>>
  /\ joint_queries = {}
  /\ predict_calls = 0
  /\ state = <<>>
  /\ decoder_output = <<>>
  /\ time_indices = <<>>
  /\ labels = <<>>
  /\ labels_list = <<>>
  /\ label_logps_list = <<>>
  /\ blank_logps_list = <<>>
  /\ blank_mask = <<>>
  /\ active_mask = <<>>
  /\ batched_hyps = <<>>
  /\ last_beam_idx = <<>>
  /\ iter_count = 0
  /\ big_iter_count = 0
  /\ encoder_projections = 0
  /\ call_args = <<>>
  /\ call_result = <<>>
  /\ NoCallback

Crash(kind) ==
  /\ pc' = "crashed"
  /\ outcome' = kind

\* a decoder step taken again for every joint query of a blank loop
LoopPredictCallsAgain(n) == n + 1

\* lines 275 and 333: the blank loops hand the decoder_output computed before
\* the loop to joint_after_projection and call decoder.predict no further
LoopPredictCalls(n) == n

\* ------------------------------------------------------------------ SEED
\* blank_mask.any() over (batch, rank)
AnySeedBlank(mask) == \E b \in DOMAIN mask : \E j \in DOMAIN mask[b] : mask[b][j]

\* logps.topk(self.beam_size) of one SEED joint query, per batch element, at the
\* frames t[b] with decoder output dec[b]: the labels, their log-probabilities,
\* and logps[batch_indices, -1]
SeedTopLabels(memo, dec, t) ==
  [ b \in Batch |-> TopKLabels(Joint(memo, b, t[b], dec[b]), beam_size) ]

SeedTopLogps(memo, dec, t) ==
  [ b \in Batch |-> TopKLogps(Joint(memo, b, t[b], dec[b]), beam_size) ]

SeedBlankLogps(memo, dec, t) ==
  [ b \in Batch |-> BlankLogp(Joint(memo, b, t[b], dec[b])) ]

\* labels == self._blank_index, over (batch, rank)
SeedBlankMask(top) ==
  [ b \in Batch |-> [ j \in Beam |-> top[b][j] = blank_index ] ]

\* lines 224-267: one decoder step on the start-of-sequence token, the joint at
\* frame 0, the top beam_size labels of every batch element
Seed ==
  /\ pc = "seed"
  /\ LET dec == [ b \in Batch |-> Predict(<<>>, blank_index) ]
         t0  == [ b \in Batch |-> 0 ]
     IN \E memo \in JointExtensions({ << b, t0[b], dec[b] >> : b \in Batch }) :
          LET top == SeedTopLabels(memo, dec, t0) IN
          /\ joint_memo' = memo
          /\ joint_queries' = { << b, t0[b] >> : b \in Batch }
          /\ state' = dec
          /\ decoder_output' = dec
          /\ time_indices' = t0
          /\ labels_list' = << top >>
          /\ label_logps_list' = << SeedTopLogps(memo, dec, t0) >>
          /\ blank_logps_list' = << [ b \in Batch |-> 0 ], SeedBlankLogps(memo, dec, t0) >>
          /\ blank_mask' = SeedBlankMask(top)
  /\ encoder_projections' = encoder_projections + 1
  /\ predict_calls' = predict_calls + 1
  /\ iter_count' = 0
  /\ pc' = "seed_loop"
  /\ UNCHANGED callbackVars
  /\ UNCHANGED << outcome, call_args, call_result,
                  batch_size, max_time, encoder_output_length, beam_request,
                  beam_size, blank_index, labels, active_mask, batched_hyps,
                  last_beam_idx, big_iter_count >>

\* lines 270-289: one iteration of the SEED blank loop
SeedBlankIter ==
  /\ pc = "seed_loop"
  /\ AnySeedBlank(blank_mask)
  /\ LET t == [ b \in Batch |-> time_indices[b] + 1 ] IN
     /\ time_indices' = t
     /\ joint_queries' = joint_queries \cup { << b, t[b] >> : b \in Batch }
     /\ IF \E b \in Batch : t[b] >= max_time
        THEN \* encoder_output_projected[batch_indices, time_indices]: index out of range
             /\ Crash("IndexError")
             /\ UNCHANGED << joint_memo, labels_list, label_logps_list, blank_logps_list,
                             blank_mask, iter_count >>
        ELSE \E ext \in JointExtensions({ << b, t[b], decoder_output[b] >> : b \in Batch }) :
               LET memo == joint_memo @@ ext
                   top  == SeedTopLabels(memo, decoder_output, t)
                   mask == [ b \in Batch |->
                             [ j \in Beam |-> blank_mask[b][j] /\ SeedBlankMask(top)[b][j] ] ]
               IN
               /\ joint_memo' = memo
               /\ labels_list' = Append(labels_list, top)
               /\ label_logps_list' = Append(label_logps_list, SeedTopLogps(memo, decoder_output, t))
               /\ blank_mask' = mask
               /\ blank_logps_list' =
                    IF AnySeedBlank(mask)
                    THEN Append(blank_logps_list, SeedBlankLogps(memo, decoder_output, t))
                    ELSE blank_logps_list
               /\ iter_count' = iter_count + 1
               /\ UNCHANGED << pc, outcome >>
  /\ predict_calls' = LoopPredictCalls(predict_calls)
  /\ UNCHANGED callbackVars
  /\ UNCHANGED << encoder_projections, call_args, call_result,
                  batch_size, max_time, encoder_output_length, beam_request, beam_size,
                  blank_index, state, decoder_output, labels, active_mask,
                  batched_hyps, last_beam_idx, big_iter_count >>

\* --------------------------------------------------------- initialize_beam
\* num_blanks = idx // self.beam_size
SeedNumBlanks(idx) == idx \div beam_size

\* lines 373-388: the candidates of batch element b, flattened over
\* (depth, rank): cat of the per-depth top-k, the cumulative blank
\* log-probability of the depth, and the total with blank endings masked
SeedCandidates(b) ==
  LET n   == Len(labels_list)
      cum == CumSum([ d \in 1..Len(blank_logps_list) |-> blank_logps_list[d][b] ])
  IN [ p \in 1..(n * beam_size) |->
         LET d == (p - 1) \div beam_size
             j == (p - 1) % beam_size
             label      == labels_list[d + 1][b][j + 1]
             label_logp == label_logps_list[d + 1][b][j + 1]
             blank_logp == cum[d + 1]
         IN [ label |-> label, label_logp |-> label_logp, blank_logp |-> blank_logp,
              total |-> MaskBlank(label, label_logp + blank_logp) ] ]

\* lines 390-395: the candidates picked by total_logps.topk(k = self.beam_size)
SeedSelection(cands, idx) ==
  [ k \in 1..Len(idx) |->
      [ label      |-> cands[idx[k]].label,
        label_logp |-> cands[idx[k]].label_logp,
        blank_logp |-> cands[idx[k]].blank_logp,
        total      |-> cands[idx[k]].total,
        num_blanks |-> SeedNumBlanks(idx[k] - 1) ] ]

\* total_logps of the flattened candidates
Totals(cands) == [ p \in DOMAIN cands |-> cands[p].total ]

\* assert((logps != float("-inf")).all())
NoNegInfSelected(sel) ==
  \A b \in DOMAIN sel : \A k \in DOMAIN sel[b] : sel[b][k].total # NegInf

\* lines 401-410: the ledger after initialize_beam
InitializeLedger(sel) == [ b \in DOMAIN sel |-> LedgerAppendLabels(sel[b]) ]

\* line 291-296: initialize_beam on the SEED lists, then the replication of the
\* decoder state over the beam and the first active mask
InitializeBeam ==
  /\ pc = "seed_loop"
  /\ ~AnySeedBlank(blank_mask)
  /\ IF ~ShapesAgree(labels_list, blank_logps_list)
     THEN \* label_logps + blank_logps, total_logps[blank_mask]: mismatched shapes
          /\ Crash("ShapeError")
          /\ UNCHANGED << batched_hyps, labels, state, active_mask >>
     ELSE LET cands == [ b \in Batch |-> SeedCandidates(b) ] IN
          \E idx \in SeqProduct([ b \in Batch |-> TopKChoices(Totals(cands[b]), beam_size) ]) :
            LET sel == [ b \in Batch |-> SeedSelection(cands[b], idx[b]) ] IN
            IF ~NoNegInfSelected(sel)
            THEN /\ Crash("AssertionError")
                 /\ UNCHANGED << batched_hyps, labels, state, active_mask >>
            ELSE /\ batched_hyps' = InitializeLedger(sel)
                 /\ labels' = [ b \in Batch |-> [ k \in Beam |-> sel[b][k].label ] ]
                 \* state.repeat_interleave(self.beam_size, dim=1)
                 /\ state' = [ b \in Batch |-> [ k \in Beam |-> state[b] ] ]
                 /\ active_mask' = ActiveMask(InitializeLedger(sel), encoder_output_length)
                 /\ pc' = "outer"
                 /\ UNCHANGED outcome
  /\ UNCHANGED callbackVars
  /\ UNCHANGED << encoder_projections, call_args, call_result,
                  batch_size, max_time, encoder_output_length, beam_request, beam_size,
                  blank_index, joint_memo, joint_queries, predict_calls, decoder_output,
                  time_indices, labels_list, label_logps_list, blank_logps_list,
                  blank_mask, last_beam_idx, iter_count, big_iter_count >>

\* ---------------------------------------------------------------- EXPAND
\* blank_mask.any() over (batch, beam, rank)
AnyBlank(mask) ==
  \E b \in DOMAIN mask : \E k \in DOMAIN mask[b] : \E j \in DOMAIN mask[b][k] : mask[b][k][j]

\* safe_time_indices of every slot
SafeTimeIndices(t) ==
  [ b \in Batch |-> [ k \in Beam |-> SafeTimeIndex(t[b][k], encoder_output_length[b]) ] ]

\* logps.topk(self.beam_size) of one joint query over batch x beam at the
\* frames st[b][k] with decoder output dec[b][k]
BeamTopLabels(memo, dec, st) ==
  [ b \in Batch |-> [ k \in Beam |->
      TopKLabels(Joint(memo, b, st[b][k], dec[b][k]), beam_size) ] ]

BeamTopLogps(memo, dec, st) ==
  [ b \in Batch |-> [ k \in Beam |->
      TopKLogps(Joint(memo, b, st[b][k], dec[b][k]), beam_size) ] ]

\* logps[batch_indices, beam_indices, -1]
BeamBlankLogps(memo, dec, st) ==
  [ b \in Batch |-> [ k \in Beam |-> BlankLogp(Joint(memo, b, st[b][k], dec[b][k])) ] ]

\* labels == self._blank_index, over (batch, beam, rank)
BeamBlankMask(top) ==
  [ b \in Batch |-> [ k \in Beam |-> [ j \in Beam |-> top[b][k][j] = blank_index ] ] ]

BeamKeys(dec, st) == { << b, st[b][k], dec[b][k] >> : b \in Batch, k \in Beam }

\* lines 300-318: one decoder step for every slot on its last label, the joint
\* at the slot's (clamped) frame, the per-slot top beam_size labels
Expand ==
  /\ pc = "outer"
  /\ AnyActive(active_mask)
  /\ LET t   == [ b \in Batch |-> [ k \in Beam |-> batched_hyps[b][k].last_timestep ] ]
         st  == SafeTimeIndices(t)
         new == [ b \in Batch |-> [ k \in Beam |-> Predict(state[b][k], labels[b][k]) ] ]
     IN \E ext \in JointExtensions(BeamKeys(new, st)) :
          LET memo == joint_memo @@ ext
              top  == BeamTopLabels(memo, new, st)
          IN
          /\ joint_memo' = memo
          /\ joint_queries' = joint_queries \cup { << b, st[b][k] >> : b \in Batch, k \in Beam }
          /\ time_indices' = t
          /\ state' = new
          /\ decoder_output' = new
          /\ labels_list' = << top >>
          /\ label_logps_list' = << BeamTopLogps(memo, new, st) >>
          /\ blank_logps_list' =
               << [ b \in Batch |-> [ k \in Beam |-> 0 ] ], BeamBlankLogps(memo, new, st) >>
          /\ blank_mask' = BeamBlankMask(top)
  /\ predict_calls' = predict_calls + 1
  /\ iter_count' = 0
  /\ pc' = "inner"
  /\ UNCHANGED callbackVars
  /\ UNCHANGED << outcome, encoder_projections, call_args, call_result,
                  batch_size, max_time, encoder_output_length, beam_request,
                  beam_size, blank_index, labels, active_mask, batched_hyps,
                  last_beam_idx, big_iter_count >>

\* -------------------------------------------------------- RESOLVE_BLANKS
\* active_mask = time_indices < encoder_output_length.unsqueeze(-1)
InnerActiveMask(t) ==
  [ b \in Batch |-> [ k \in Beam |-> t[b][k] < encoder_output_length[b] ] ]

\* lines 321-348: one iteration of the inner blank loop; the decoder output is
\* reused
ResolveBlanksIter ==
  /\ pc = "inner"
  /\ AnyBlank(blank_mask) /\ AnyActive(active_mask)
  /\ LET t  == [ b \in Batch |-> [ k \in Beam |-> time_indices[b][k] + 1 ] ]
         st == SafeTimeIndices(t)
     IN \E ext \in JointExtensions(BeamKeys(decoder_output, st)) :
          LET memo   == joint_memo @@ ext
              top    == BeamTopLabels(memo, decoder_output, st)
              mask   == [ b \in Batch |-> [ k \in Beam |-> [ j \in Beam |->
                            blank_mask[b][k][j] /\ BeamBlankMask(top)[b][k][j] ] ] ]
              active == InnerActiveMask(t)
          IN
          /\ joint_memo' = memo
          /\ joint_queries' = joint_queries \cup { << b, st[b][k] >> : b \in Batch, k \in Beam }
          /\ time_indices' = t
          /\ labels_list' = Append(labels_list, top)
          /\ label_logps_list' = Append(label_logps_list, BeamTopLogps(memo, decoder_output, st))
          /\ blank_mask' = mask
          /\ active_mask' = active
          /\ blank_logps_list' =
               IF AnyBlank(mask) /\ AnyActive(active)
               THEN Append(blank_logps_list, BeamBlankLogps(memo, decoder_output, st))
               ELSE blank_logps_list
  /\ iter_count' = iter_count + 1
  /\ predict_calls' = LoopPredictCalls(predict_calls)
  /\ UNCHANGED callbackVars
  /\ UNCHANGED << pc, outcome, encoder_projections, call_args, call_result,
                  batch_size, max_time, encoder_output_length, beam_request,
                  beam_size, blank_index, state, decoder_output, labels,
                  batched_hyps, last_beam_idx, big_iter_count >>

\* ----------------------------------------------------------------- MERGE
\* num_blanks = idx // (self.beam_size * self.beam_size)
NumBlanks(idx) == idx \div (beam_size * beam_size)

\* the position inside the parent's top-k taken for the parent slot
BeamIndexRank(idx) == idx % beam_size

\* beam_index = idx % (self.beam_size * self.beam_size) // self.beam_size
BeamIndex(idx) == (idx % (beam_size * beam_size)) \div beam_size

\* the blank log-probability of the depth with its sign turned
MergeBlankLogpNegated(d, b, k) == 0 - blank_logps_list[d][b][k]

\* lines 427-429: stack gives (batch, depth, beam, 1); the cumsum runs over the
\* last axis, which holds the single entry of the slot
MergeBlankLogp(d, b, k) == CumSum(<< blank_logps_list[d][b][k] >>)[1]

\* lines 424-449: the candidates of batch element b, flattened over
\* (depth, parent slot, rank)
MergeCandidates(b) ==
  LET n  == Len(labels_list)
      kk == beam_size * beam_size
  IN [ p \in 1..(n * kk) |->
         LET d == (p - 1) \div kk
             k == ((p - 1) % kk) \div beam_size
             j == (p - 1) % beam_size
             label      == labels_list[d + 1][b][k + 1][j + 1]
             label_logp == label_logps_list[d + 1][b][k + 1][j + 1]
             blank_logp == MergeBlankLogp(d + 1, b, k + 1)
         IN [ label |-> label, label_logp |-> label_logp, blank_logp |-> blank_logp,
              total |-> MaskBlank(label,
                          batched_hyps[b][k + 1].score + label_logp + blank_logp) ] ]

\* lines 451-457: the candidates picked by total_logps.topk(k = self.beam_size)
MergeSelection(cands, idx) ==
  [ k \in 1..Len(idx) |->
      [ label      |-> cands[idx[k]].label,
        label_logp |-> cands[idx[k]].label_logp,
        blank_logp |-> cands[idx[k]].blank_logp,
        total      |-> cands[idx[k]].total,
        num_blanks |-> NumBlanks(idx[k] - 1),
        beam_index |-> BeamIndex(idx[k] - 1) ] ]

\* assert((beam_index < self.beam_size).all()); assert((num_blanks < len(labels_list)).all())
IndexAssertsHold(sel) ==
  \A b \in DOMAIN sel : \A k \in DOMAIN sel[b] :
    /\ sel[b][k].beam_index < beam_size
    /\ sel[b][k].num_blanks < Len(labels_list)

\* update_beam applied only to the batch elements that still have an active slot
MergeLedgerActiveOnly(hyps, sel) ==
  [ b \in DOMAIN sel |->
      IF \E k \in DOMAIN hyps[b] : hyps[b][k].last_timestep < encoder_output_length[b]
      THEN LedgerUpdateBeam(hyps[b], sel[b])
      ELSE hyps[b] ]

\* update_beam extending every slot's own hypothesis, whatever beam_index says
MergeLedgerOwnSlot(hyps, sel) ==
  [ b \in DOMAIN sel |->
      LedgerUpdateBeam(hyps[b],
        [ k \in DOMAIN sel[b] |-> [ sel[b][k] EXCEPT !.beam_index = k - 1 ] ]) ]

\* lines 463-467: batched_beam_hyps.update_beam on every batch element
MergeLedger(hyps, sel) == [ b \in DOMAIN sel |-> LedgerUpdateBeam(hyps[b], sel[b]) ]

\* line 354: beam_idx.flatten() + torch.arange(batch_size).repeat_interleave(self.beam_size)
RearrangeIndex(sel) ==
  [ i \in 0..(batch_size * beam_size - 1) |->
      sel[(i \div beam_size) + 1][(i % beam_size) + 1].beam_index + (i \div beam_size) ]

\* decoder.batch_rearrange_states(state, index): flat slot i takes the state of
\* flat slot index[i]
BatchRearrangeStates(st, index) ==
  [ b \in Batch |-> [ k \in Beam |->
      LET src == index[(b - 1) * beam_size + (k - 1)] IN
      st[(src \div beam_size) + 1][(src % beam_size) + 1] ] ]

\* lines 352-360: update_beam on the collected lists, the reordering of the
\* decoder state, the new active mask
Merge ==
  /\ pc = "inner"
  /\ ~(AnyBlank(blank_mask) /\ AnyActive(active_mask))
  /\ IF ~ShapesAgree(labels_list, blank_logps_list)
     THEN \* total_logps[blank_mask]: mask and tensor differ on the depth axis
          /\ Crash("ShapeError")
          /\ UNCHANGED << batched_hyps, labels, state, active_mask, last_beam_idx,
                          big_iter_count >>
     ELSE LET cands == [ b \in Batch |-> MergeCandidates(b) ] IN
          \E idx \in SeqProduct([ b \in Batch |-> TopKChoices(Totals(cands[b]), beam_size) ]) :
            LET sel == [ b \in Batch |-> MergeSelection(cands[b], idx[b]) ] IN
            IF ~(NoNegInfSelected(sel) /\ IndexAssertsHold(sel))
            THEN /\ Crash("AssertionError")
                 /\ UNCHANGED << batched_hyps, labels, state, active_mask, last_beam_idx,
                                 big_iter_count >>
            ELSE /\ batched_hyps' = MergeLedger(batched_hyps, sel)
                 /\ labels' = [ b \in Batch |-> [ k \in Beam |-> sel[b][k].label ] ]
                 /\ last_beam_idx' = RearrangeIndex(sel)
                 /\ state' = BatchRearrangeStates(state, RearrangeIndex(sel))
                 /\ active_mask' = ActiveMask(MergeLedger(batched_hyps, sel),
                                              encoder_output_length)
                 /\ big_iter_count' = big_iter_count + 1
                 /\ pc' = "outer"
                 /\ UNCHANGED outcome
  /\ UNCHANGED callbackVars
  /\ UNCHANGED << encoder_projections, call_args, call_result,
                  batch_size, max_time, encoder_output_length, beam_request, beam_size,
                  blank_index, joint_memo, joint_queries, predict_calls, decoder_output,
                  time_indices, labels_list, label_logps_list, blank_logps_list,
                  blank_mask, iter_count >>

\* ------------------------------------------------------------------ DONE
\* lines 362-363: the statement after the outer loop is exit(), before the return
Finish ==
  /\ pc = "outer"
  /\ ~AnyActive(active_mask)
  /\ pc' = "finished"
  /\ outcome' = "SystemExit"
  /\ UNCHANGED callbackVars
  /\ UNCHANGED << encoder_projections, call_args, call_result,
                  batch_size, max_time, encoder_output_length, beam_request, beam_size,
                  blank_index, joint_memo, joint_queries, predict_calls, state,
                  decoder_output, time_indices, labels, labels_list, label_logps_list,
                  blank_logps_list, blank_mask, active_mask, batched_hyps, last_beam_idx,
                  iter_count, big_iter_count >>

Next ==
  \/ Seed
  \/ SeedBlankIter
  \/ InitializeBeam
  \/ Expand
  \/ ResolveBlanksIter
  \/ Merge
  \/ Finish

Spec == Init /\ [][Next]_vars

\* ------------------------------------------- decode calls on other inputs
\* the locals and fields at the start of a decode call, its inputs apart
DecodeStart ==
  /\ pc = "seed"
  /\ outcome = "running"
  /\ joint_memo = <<>>
  /\ joint_queries = {}
  /\ predict_calls = 0
  /\ state = <<>>
  /\ decoder_output = <<>>
  /\ time_indices = <<>>
  /\ labels = <<>>
  /\ labels_list = <<>>
  /\ label_logps_list = <<>>
  /\ blank_logps_list = <<>>
  /\ blank_mask = <<>>
  /\ active_mask = <<>>
  /\ batched_hyps = <<>>
  /\ last_beam_idx = <<>>
  /\ iter_count = 0
  /\ big_iter_count = 0
  /\ encoder_projections = 0
  /\ call_args = <<>>
  /\ call_result = <<>>
  /\ NoCallback


RaggedInit ==
  /\ batch_size = Len(RaggedLengths)
  /\ encoder_output_length = RaggedLengths
  /\ max_time = SeqMax(RaggedLengths)
  /\ beam_request \in 1..MaxRaggedBeam
  /\ beam_size = EffectiveBeamSize(beam_request, VocabSize)
  /\ blank_index = LastIndex
  /\ DecodeStart

RaggedSpec == RaggedInit /\ [][Next]_vars

\* a single utterance decoded with any vocabulary index configured as blank
BlankIndexInit ==
  /\ batch_size = 1
  /\ max_time \in 1..MaxBlankTime
  /\ encoder_output_length = << max_time >>
  /\ beam_request \in 1..MaxBlankBeam
  /\ beam_size = EffectiveBeamSize(beam_request, VocabSize)
  /\ blank_index \in 1..LastIndex
  /\ DecodeStart

BlankIndexSpec == BlankIndexInit /\ [][Next]_vars

\* -------------------------------------------------------------- __init__
\* the locals of loop_labels_torch while no decode call is running
NoDecodeCall ==
  /\ outcome = "running"
  /\ batch_size = 0
  /\ max_time = 0
  /\ encoder_output_length = <<>>
  /\ blank_index = LastIndex
  /\ joint_memo = <<>>
  /\ joint_queries = {}
  /\ predict_calls = 0
  /\ state = <<>>
  /\ decoder_output = <<>>
  /\ time_indices = <<>>
  /\ labels = <<>>
  /\ labels_list = <<>>
  /\ label_logps_list = <<>>
  /\ blank_logps_list = <<>>
  /\ blank_mask = <<>>
  /\ active_mask = <<>>
  /\ batched_hyps = <<>>
  /\ last_beam_idx = <<>>
  /\ iter_count = 0
  /\ big_iter_count = 0
  /\ encoder_projections = 0

decodeLocals ==
  << outcome, batch_size, max_time, encoder_output_length, blank_index, joint_memo,
     joint_queries, predict_calls, state, decoder_output, time_indices, labels,
     labels_list, label_logps_list, blank_logps_list, blank_mask, active_mask,
     batched_hyps, last_beam_idx, iter_count, big_iter_count, encoder_projections >>

\* the arguments of __init__: the requested beam_size and a joint whose
\* vocabulary has vocab_size entries
CtorInit ==
  /\ pc = "init"
  /\ beam_request \in 1..MaxCtorBeam
  /\ call_args \in [ vocab_size : 1..MaxCtorVocab ]
  /\ beam_size = 0
  /\ call_result = <<>>
  /\ NoDecodeCall
  /\ NoCallback

\* lines 207-208
Construct ==
  /\ pc = "init"
  /\ beam_size' = EffectiveBeamSize(beam_request, call_args.vocab_size)
  /\ pc' = "constructed"
  /\ UNCHANGED << beam_request, call_args, call_result >>
  /\ UNCHANGED decodeLocals
  /\ UNCHANGED callbackVars

CtorNext == Construct

CtorSpec == CtorInit /\ [][CtorNext]_vars

\* ----------------------------------------------- LoopLabelsState.need_reinit
\* torch devices: cpu and meta carry no index, cuda devices are numbered
Devices ==
  { [type |-> "cpu", index |-> NoIndex], [type |-> "meta", index |-> NoIndex],
    [type |-> "cuda", index |-> 0], [type |-> "cuda", index |-> 1] }

\* lines 148-154; st is the LoopLabelsState, req the encoder_output_projected
\* of the request (shape[0], shape[1], device)
NeedReinit(st, req) ==
  \/ st.batch_size < req.batch_size
  \/ st.max_time < req.max_time
  \/ st.device.index # req.device.index

ReinitInit ==
  /\ pc = "need_reinit"
  /\ call_args \in
       [ state   : [ batch_size : 1..MaxStateDim, max_time : 1..MaxStateDim, device : Devices ],
         request : [ batch_size : 1..MaxStateDim, max_time : 1..MaxStateDim, device : Devices ] ]
  /\ call_result = <<>>
  /\ beam_request = 0
  /\ beam_size = 0
  /\ NoDecodeCall
  /\ NoCallback

NeedReinitCall ==
  /\ pc = "need_reinit"
  /\ call_result' = [ value |-> NeedReinit(call_args.state, call_args.request) ]
  /\ pc' = "returned"
  /\ UNCHANGED << beam_request, beam_size, call_args >>
  /\ UNCHANGED decodeLocals
  /\ UNCHANGED callbackVars

ReinitNext == NeedReinitCall

ReinitSpec == ReinitInit /\ [][ReinitNext]_vars

\* ------------------------------------------------------ CUDAGraphCallback
\* capture_iteration values given to the callback: negative disables capture
CaptureIterations == (0 - 2)..MaxCaptureIteration

\* the refusal with the bound itself let through
RefusesCaptureBelow(c) == 0 <= c /\ c < LastRefusedIteration

\* line 235: if 0 <= capture_iteration <= 11: raise
RefusesCapture(c) == 0 <= c /\ c <= LastRefusedIteration

\* eager execution kept for the capture iteration too
RunsEagerThrough(cur, c) == (0 <= cur /\ cur <= c) \/ c < 0

\* line 136: 0 <= current_iteration < capture_iteration or capture_iteration < 0
RunsEager(cur, c) == (0 <= cur /\ cur < c) \/ c < 0

\* line 151: current_iteration == capture_iteration
Captures(cur, c) == cur = c

\* line 168: current_iteration >= capture_iteration >= 0
Replays(cur, c) == cur >= c /\ c >= 0

\* the decoder is not running
NoDecodeStep ==
  /\ UNCHANGED << pc, beam_request, beam_size, call_args, call_result >>
  /\ UNCHANGED decodeLocals

CallbackInit ==
  /\ pc = "callback"
  /\ beam_request = 0
  /\ beam_size = 0
  /\ call_args = <<>>
  /\ call_result = <<>>
  /\ NoDecodeCall
  /\ capture_iteration \in CaptureIterations
  /\ callback = "none"
  /\ graph_state = "none"
  /\ current_iteration = 0
  /\ step_calls = 0
  /\ eager_runs = 0
  /\ captures = 0
  /\ replays = 0
  /\ autocast_init = "original"
  /\ autocast_orig = "absent"
  /\ ddp_init = "original"
  /\ ddp_orig = "absent"
  /\ pending_setups = 0
  /\ setup_calls = 0
  /\ cb_error = "none"

\* lines 230-241: CUDAGraphCallback.__init__
ConstructCallback ==
  /\ callback = "none"
  /\ graph_state = "none"
  /\ IF RefusesCapture(capture_iteration)
     THEN /\ callback' = "raised"
          /\ cb_error' = "Exception"
          /\ UNCHANGED graph_state
     ELSE /\ callback' = "constructed"
          /\ graph_state' = "made"
          /\ UNCHANGED cb_error
  /\ UNCHANGED << capture_iteration, current_iteration, step_calls, eager_runs, captures,
                  replays, autocast_init, autocast_orig, ddp_init, ddp_orig,
                  pending_setups, setup_calls >>
  /\ NoDecodeStep

\* lines 215-221 and 115: a CUDAGraphState built by the caller and handed to
\* get_optimizer_step, without the callback
MakeState ==
  /\ callback = "none"
  /\ graph_state = "none"
  /\ graph_state' = "made"
  /\ UNCHANGED << capture_iteration, callback, current_iteration, step_calls, eager_runs,
                  captures, replays, autocast_init, autocast_orig, ddp_init, ddp_orig,
                  pending_setups, setup_calls, cb_error >>
  /\ NoDecodeStep

\* lines 136-176: one call of the patched optimizer_step
OptimizerStep ==
  /\ graph_state = "made"
  /\ cb_error = "none"
  /\ step_calls < MaxStepCalls
  /\ step_calls' = step_calls + 1
  /\ eager_runs' = IF RunsEager(current_iteration, capture_iteration)
                   THEN eager_runs + 1 ELSE eager_runs
  /\ captures' = IF Captures(current_iteration, capture_iteration)
                 THEN captures + 1 ELSE captures
  /\ replays' = IF Replays(current_iteration, capture_iteration)
                THEN replays + 1 ELSE replays
  /\ current_iteration' = current_iteration + 1
  /\ UNCHANGED << capture_iteration, callback, graph_state, autocast_init, autocast_orig,
                  ddp_init, ddp_orig, pending_setups, setup_calls, cb_error >>
  /\ NoDecodeStep

\* lines 243-255: setup saves the current __init__ of both classes under
\* __orig_init__ and installs the patched one
Setup ==
  /\ callback = "constructed"
  /\ cb_error = "none"
  /\ setup_calls < MaxSetups
  /\ autocast_orig' = autocast_init
  /\ autocast_init' = "patched"
  /\ ddp_orig' = ddp_init
  /\ ddp_init' = "patched"
  /\ pending_setups' = pending_setups + 1
  /\ setup_calls' = setup_calls + 1
  /\ UNCHANGED << capture_iteration, callback, graph_state, current_iteration, step_calls,
                  eager_runs, captures, replays, cb_error >>
  /\ NoDecodeStep

\* lines 257-263: teardown puts __orig_init__ back and deletes the attribute;
\* reading a deleted attribute raises AttributeError
Teardown ==
  /\ callback = "constructed"
  /\ cb_error = "none"
  /\ pending_setups > 0
  /\ pending_setups' = pending_setups - 1
  /\ IF autocast_orig = "absent"
     THEN /\ cb_error' = "AttributeError"
          /\ UNCHANGED << autocast_init, autocast_orig, ddp_init, ddp_orig >>
     ELSE /\ autocast_init' = autocast_orig
          /\ autocast_orig' = "absent"
          /\ IF ddp_orig = "absent"
             THEN /\ cb_error' = "AttributeError"
                  /\ UNCHANGED << ddp_init, ddp_orig >>
             ELSE /\ ddp_init' = ddp_orig
                  /\ ddp_orig' = "absent"
                  /\ UNCHANGED cb_error
  /\ UNCHANGED << capture_iteration, callback, graph_state, current_iteration, step_calls,
                  eager_runs, captures, replays, setup_calls >>
  /\ NoDecodeStep

CallbackNext ==
  \/ ConstructCallback
  \/ MakeState
  \/ OptimizerStep
  \/ Setup
  \/ Teardown

CallbackSpec == CallbackInit /\ [][CallbackNext]_vars

\* ---------------------------------------------------------------- claims
\* the outer loop has just ended: the loop condition active_mask.any() is false
OuterLoopExited == pc = "outer" /\ ~AnyActive(active_mask)

\* the ledger exists: SEED has completed
LedgerLive == pc \in {"outer", "inner", "finished"}

LastFrame(b) == encoder_output_length[b] - 1

\* C1: a decode call whose outer loop has ended hands the finalized ledger
\* back to the caller; it neither stops the process nor raises before returning.
C1_CallReturnsLedger == pc = "finished" => outcome = "returned"

\* C2: at the moment the outer loop exits, every hypothesis (b, k) has
\* last_timestep[b, k] = encoder_output_length[b] - 1.
C2_ExitAtLastFrame ==
  OuterLoopExited =>
    \A b \in Batch : \A k \in Beam : batched_hyps[b][k].last_timestep = LastFrame(b)

\* C3: after SEED and after each MERGE, every hypothesis (b, k) has
\* last_timestep[b, k] <= encoder_output_length[b] - 1.
C3_CursorWithinInput ==
  LedgerLive =>
    \A b \in Batch : \A k \in Beam : batched_hyps[b][k].last_timestep <= LastFrame(b)

\* C4: no candidate with total score -inf is ever selected by top-k in
\* initialize_beam or update_beam: the assertions logps != -inf never fail.
C4_NoNegInfSelected == outcome # "AssertionError"

\* C5: after SEED and after every MERGE each batch element has exactly
\* min(beam_size, vocabulary_size) live hypotheses (a slot holding at least one
\* label and a finite score), no more and no fewer.
LiveSlots(b) ==
  { k \in DOMAIN batched_hyps[b] :
      /\ Len(batched_hyps[b][k].labels) >= 1
      /\ batched_hyps[b][k].score > NegInf }

C5_LiveHypotheses ==
  LedgerLive =>
    /\ DOMAIN batched_hyps = Batch
    /\ \A b \in Batch :
         /\ Len(batched_hyps[b]) = (IF beam_request <= VocabSize THEN beam_request ELSE VocabSize)
         /\ LiveSlots(b) = DOMAIN batched_hyps[b]

C5_Witness ==
  /\ pc = "outer"
  /\ big_iter_count >= 1
  /\ beam_request > VocabSize
  /\ batch_size = 2

\* C6: every label written to the ledger by SEED or MERGE is a non-blank
\* token id; no hypothesis's label sequence contains blank_index.
C6_NoBlankInLedger ==
  LedgerLive =>
    \A b \in Batch : \A k \in Beam :
      \A i \in DOMAIN batched_hyps[b][k].labels : batched_hyps[b][k].labels[i] # blank_index

\* a MERGE has written labels although blank headed the candidates of a slot
C6_Witness ==
  /\ pc = "outer"
  /\ big_iter_count >= 1
  /\ \E b \in Batch : \E k \in Beam : labels_list[1][b][k][1] = blank_index

\* C7: every decode call terminates; the SEED blank loop, each RESOLVE_BLANKS
\* loop and the outer loop each stop after a number of iterations bounded by
\* the largest encoder_output_length, whatever the joint network returns.
\* iter_count and big_iter_count count the completed iterations of the loop
\* that is running.
C7_LoopsBounded ==
  /\ iter_count <= SeqMax(encoder_output_length)
  /\ big_iter_count <= SeqMax(encoder_output_length)

\* C8: all hypotheses of the ledger have the same number of emitted labels:
\* 1 after SEED and 1 + m after the m-th MERGE.
C8_EqualLengths ==
  LedgerLive =>
    \A b \in Batch : \A k \in Beam : Len(batched_hyps[b][k].labels) = 1 + big_iter_count

C8_Witness ==
  /\ pc = "outer"
  /\ big_iter_count >= 1
  /\ batch_size = 2
  /\ encoder_output_length[1] # encoder_output_length[2]

\* C9: a batch element with encoder_output_length = 1 is never queried or
\* advanced beyond frame 0, in SEED or in RESOLVE_BLANKS, and its decoding ends
\* after one EXPAND / RESOLVE_BLANKS cycle.
C9_SingleFrame ==
  \A b \in Batch :
    encoder_output_length[b] = 1 =>
      /\ \A q \in joint_queries : q[1] = b => q[2] = 0
      /\ pc \notin {"crashed"}
      /\ big_iter_count <= 1

\* C10: batch_size 1, two frames, beam_size 2, vocabulary {a, b, blank}, a
\* ranked first at frame 0 and blank ranked first at frame 1: the finalized
\* top hypothesis has labels = [a] and last_timestep = 1.
Scenario10 ==
  /\ batch_size = 1
  /\ encoder_output_length = << 2 >>
  /\ beam_size = 2
  /\ \A key \in DOMAIN joint_memo :
       /\ key[2] = 0 => TopKLabels(joint_memo[key], 1)[1] = 1
       /\ key[2] = 1 => TopKLabels(joint_memo[key], 1)[1] = blank_index

C10_TopHypothesis ==
  (Scenario10 /\ OuterLoopExited) =>
    \A k \in Beam :
      (\A k2 \in Beam : batched_hyps[1][k].score >= batched_hyps[1][k2].score)
        => /\ batched_hyps[1][k].labels = << 1 >>
           /\ batched_hyps[1][k].last_timestep = 1

\* the parent slot beam_idx[b, k] of new slot (b, k), read back from the flat
\* index of line 354
ParentSlot(flat, b, k) == flat[(b - 1) * beam_size + (k - 1)] - (b - 1) + 1

\* a MERGE step: update_beam has rewritten the ledger
MergeStep == pc = "inner" /\ pc' = "outer"

\* C11: the cumulative score of a hypothesis after update_beam is its parent's
\* cumulative score plus a finite increment <= 0, so it is never greater than
\* the score of the parent slot it was extended from.
C11_ScoreNotAboveParent ==
  [][ MergeStep =>
        \A b \in Batch : \A k \in Beam :
          LET parent == batched_hyps[b][ParentSlot(last_beam_idx', b, k)]
              child  == batched_hyps'[b][k]
          IN /\ child.score <= parent.score
             /\ child.score - parent.score > NegInf ]_vars

\* a MERGE has extended a hypothesis over at least one skipped blank frame
C11_Witness ==
  /\ pc = "outer"
  /\ big_iter_count >= 1
  /\ \E b \in Batch : \E k \in Beam :
       LET ts == batched_hyps[b][k].timesteps IN
       ts[Len(ts)] - ts[Len(ts) - 1] >= 2

\* C12: constructing the controller with beam_size larger than the vocabulary
\* size never fails; the effective beam_size is min(requested, vocabulary
\* size), and a request not larger than the vocabulary size is kept unchanged.
C12_BeamSizeClamped ==
  pc = "constructed" =>
    /\ outcome = "running"
    /\ beam_request > call_args.vocab_size => beam_size = call_args.vocab_size
    /\ beam_request <= call_args.vocab_size => beam_size = beam_request

C12_Witness ==
  /\ pc = "constructed"
  /\ beam_request > call_args.vocab_size
  /\ beam_size < beam_request

\* the encoder frame whose joint output produced label i of a hypothesis of
\* batch element b with recorded timesteps ts: SEED reads the frame of the
\* depth itself (line 275), EXPAND and RESOLVE_BLANKS read the clamped frame
\* (lines 303, 327)
LabelFrame(b, ts, i) ==
  IF i = 1 THEN ts[1] ELSE SafeTimeIndex(ts[i], encoder_output_length[b])

C15_NeedReinitExact ==
  pc = "returned" =>
    (call_result.value <=>
       \/ call_args.state.batch_size < call_args.request.batch_size
       \/ call_args.state.max_time < call_args.request.max_time
       \/ call_args.state.device # call_args.request.device)

\* the blank loop of RESOLVE_BLANKS has ended and update_beam can build its
\* candidates
MergeReady ==
  /\ pc = "inner"
  /\ ~(AnyBlank(blank_mask) /\ AnyActive(active_mask))
  /\ ShapesAgree(labels_list, blank_logps_list)

\* the blank log-probabilities collected for slot (b, k), by depth
BlankRun(b, k) == [ d \in 1..Len(blank_logps_list) |-> blank_logps_list[d][b][k] ]

\* C16: the total score of a candidate selected in MERGE at blank-run depth d
\* is the parent slot's cumulative score plus the label's log-probability plus
\* the sum of the blank log-probabilities of all d skipped frames (a running
\* sum over the depths 0..d, 0 charged at depth 0), for every d, d >= 2 included.
C16_CumulativeBlankCharge ==
  MergeReady =>
    \A b \in Batch :
      LET cands == MergeCandidates(b) IN
      \A idx \in TopKChoices(Totals(cands), beam_size) :
        \A j \in DOMAIN idx :
          LET c == cands[idx[j]]
              d == NumBlanks(idx[j] - 1)
              k == BeamIndex(idx[j] - 1) + 1
          IN c.total > NegInf =>
               c.total = batched_hyps[b][k].score + c.label_logp
                           + CumSum(BlankRun(b, k))[d + 1]

\* what the decoder has consumed when it stands behind a hypothesis: the
\* start-of-sequence token and every label but the last
ConsumedBy(hyp) == << blank_index >> \o SubSeq(hyp.labels, 1, Len(hyp.labels) - 1)

\* C17: after MERGE the decoder state of new slot (b, k) is the state of its
\* selected parent slot of the same batch element b: the flat index handed to
\* batch_rearrange_states for slot (b, k) is b * beam_size + beam_idx[b, k] and
\* never refers to a slot of another batch element.
C17_RearrangeWithinBatch ==
  (pc = "outer" /\ big_iter_count >= 1) =>
    /\ \A i \in DOMAIN last_beam_idx : last_beam_idx[i] \div beam_size = i \div beam_size
    /\ \A b \in Batch : \A k \in Beam : state[b][k] = ConsumedBy(batched_hyps[b][k])

\* some slot has not reached the last valid frame of its batch element
SomeSlotBeforeLastFrame ==
  \E b \in Batch : \E k \in Beam : batched_hyps[b][k].last_timestep < LastFrame(b)

\* C18: the outer loop runs another EXPAND exactly when some batch element has
\* a slot with last_timestep < encoder_output_length - 1, and goes to DONE as
\* soon as every slot has last_timestep >= encoder_output_length - 1; no EXPAND
\* is run for a ledger whose slots all sit on the last valid frame.
C18_ExpandOnlyBeforeLastFrame ==
  [][ /\ (pc = "outer" /\ pc' = "inner") => SomeSlotBeforeLastFrame
      /\ (pc = "outer" /\ pc' = "finished") => ~SomeSlotBeforeLastFrame ]_vars

\* the labels of the joint query made last, the candidates at the current frame
CurrentTop == labels_list[Len(labels_list)]

\* C19: the blank-resolution loop (in SEED and in RESOLVE_BLANKS) advances a
\* slot to the next frame only so long as the top beam_size candidates of the
\* slot at the current frame are all blank and the slot's frame index has not
\* reached encoder_output_length - 1; a slot that has stopped is not advanced
\* by other slots still resolving blanks.
C19_AdvanceOnlyOnBlank ==
  [][ /\ pc = "seed_loop" =>
           \A b \in Batch :
             time_indices'[b] # time_indices[b] =>
               /\ \A j \in Beam : CurrentTop[b][j] = blank_index
               /\ time_indices[b] < LastFrame(b)
      /\ pc = "inner" =>
           \A b \in Batch : \A k \in Beam :
             time_indices'[b][k] # time_indices[b][k] =>
               /\ \A j \in Beam : CurrentTop[b][k][j] = blank_index
               /\ time_indices[b][k] < LastFrame(b) ]_vars

\* C20: within one decode call the encoder projection is computed exactly once
\* before any other step; decoder.predict is invoked exactly once in SEED and
\* exactly once at the start of each outer-loop iteration (EXPAND), never
\* inside a blank-resolution loop; every MERGE follows exactly one EXPAND, so
\* the number of predict calls is 1 + the number of MERGE steps (one more
\* while an EXPAND awaits its MERGE).
C20_PredictOncePerIteration ==
  /\ pc = "seed" => (encoder_projections = 0 /\ predict_calls = 0)
  /\ pc \in {"seed_loop", "outer", "inner", "finished", "crashed"} => encoder_projections = 1
  /\ pc = "seed_loop" => predict_calls = 1
  /\ pc \in {"outer", "finished"} => predict_calls = 1 + big_iter_count
  /\ pc = "inner" => predict_calls = 2 + big_iter_count
  /\ pc = "crashed" => predict_calls \in {1 + big_iter_count, 2 + big_iter_count}

\* a call that went through two MERGE steps, each after a blank loop
C20_Witness ==
  /\ pc = "finished"
  /\ big_iter_count >= 2
  /\ iter_count >= 1
  /\ predict_calls = 3

\* C21: for each batch element MERGE selects exactly the beam_size candidates
\* with the highest total score among all non-blank candidates of all depths,
\* parent slots and top-k positions; every blank candidate is excluded, and no
\* non-selected non-blank candidate scores strictly higher than a selected one.
C21_MergeSelectsBestLabels ==
  MergeReady =>
    \A b \in Batch :
      LET cands == MergeCandidates(b) IN
      \A idx \in TopKChoices(Totals(cands), beam_size) :
        /\ Len(idx) = beam_size
        /\ \A j \in DOMAIN idx : cands[idx[j]].label # blank_index
        /\ \A p \in DOMAIN cands :
             (cands[p].label # blank_index /\ \A j \in DOMAIN idx : idx[j] # p) =>
               \A j \in DOMAIN idx : cands[p].total <= cands[idx[j]].total

\* lines 446-449: view(batch_size, -1) of a (depth, parent slot, rank) block
\* lays entry (d, k, j) at this 0-based position
FlatIndex(d, k, j) == d * beam_size * beam_size + k * beam_size + j

\* C22: for every flat index selected by top-k in update_beam the decoded
\* num_blanks and beam_index are below the number of explored depths and below
\* beam_size, and the selected label and log-probabilities are those stored
\* at that depth and parent slot (decoding inverts the flattening), so the
\* beam-index and depth assertions never fail.
C22_DecodeInvertsFlatten ==
  MergeReady =>
    \A b \in Batch :
      LET cands == MergeCandidates(b) IN
      /\ \A d \in 0..(Len(labels_list) - 1) : \A k \in 0..(beam_size - 1) :
           \A j \in 0..(beam_size - 1) :
             LET idx == FlatIndex(d, k, j) IN
             /\ NumBlanks(idx) = d
             /\ BeamIndex(idx) = k
             /\ cands[idx + 1].label = labels_list[d + 1][b][k + 1][j + 1]
             /\ cands[idx + 1].label_logp = label_logps_list[d + 1][b][k + 1][j + 1]
             /\ cands[idx + 1].blank_logp = MergeBlankLogp(d + 1, b, k + 1)
      /\ \A idx \in TopKChoices(Totals(cands), beam_size) :
           LET sel == MergeSelection(cands, idx) IN
           \A j \in DOMAIN sel :
             /\ sel[j].beam_index < beam_size
             /\ sel[j].num_blanks < Len(labels_list)
             /\ idx[j] - 1 \in
                  { FlatIndex(sel[j].num_blanks, sel[j].beam_index, r) : r \in 0..(beam_size - 1) }

\* update_beam is about to select among three depths of two parent slots
C22_Witness ==
  /\ MergeReady
  /\ Len(labels_list) >= 3
  /\ beam_size = 2

C24_WarmupBeforeCapture ==
  /\ callback = "raised" =>
       (0 <= capture_iteration /\ capture_iteration <= 11 /\ graph_state = "none")
  /\ callback = "constructed" =>
       /\ capture_iteration < 0 \/ capture_iteration >= 12
       /\ graph_state = "made"
       /\ captures >= 1 => eager_runs >= 11

C24_Witness ==
  /\ callback = "constructed"
  /\ capture_iteration = 12
  /\ captures = 1

\* C25: over any sequence of calls of the patched optimizer_step with
\* capture_iteration = c >= 0, current_iteration grows by 1 per call; calls with
\* current_iteration < c run eagerly and never replay, the call with
\* current_iteration = c captures exactly once and replays, every later call
\* only replays.  With c < 0 every call runs eagerly, nothing is captured or
\* replayed.
C25_EagerCaptureReplay ==
  /\ current_iteration = step_calls
  /\ capture_iteration >= 0 =>
       /\ eager_runs = Min2(step_calls, capture_iteration)
       /\ captures = (IF step_calls > capture_iteration THEN 1 ELSE 0)
       /\ replays = (IF step_calls > capture_iteration
                      THEN step_calls - capture_iteration ELSE 0)
  /\ capture_iteration < 0 =>
       (eager_runs = step_calls /\ captures = 0 /\ replays = 0)

C25_Witness ==
  /\ capture_iteration >= 1
  /\ eager_runs >= 1
  /\ captures = 1
  /\ replays >= 2

\* C30: after any sequence of setup and teardown calls in which every setup
\* has been matched by a teardown (two setups before the first teardown
\* included), torch.autocast.__init__ and DistributedDataParallel.__init__ are
\* the original functions again and no teardown has failed on a missing saved
\* original.
C30_TeardownRestores ==
  /\ cb_error # "AttributeError"
  /\ (setup_calls >= 1 /\ pending_setups = 0) =>
       (autocast_init = "original" /\ ddp_init = "original")

\* C26: every encoder frame index used to query the joint network for batch
\* element b, in SEED, the SEED blank loop, EXPAND and RESOLVE_BLANKS, lies in
\* [0, encoder_output_length[b] - 1]: no padded frame of a shorter utterance
\* is read and no index reaches max_time.
C26_FramesWithinUtterance ==
  \A q \in joint_queries :
    /\ 0 <= q[2]
    /\ q[2] <= LastFrame(q[1])
    /\ q[2] < max_time

\* initialize_beam or update_beam is about to be called
BeamCallReady ==
  \/ pc = "seed_loop" /\ ~AnySeedBlank(blank_mask)
  \/ pc = "inner" /\ ~(AnyBlank(blank_mask) /\ AnyActive(active_mask))

\* C27: SEED and MERGE succeed when blank is not among the top beam_size
\* candidates of the first joint query (zero blank-loop iterations): at the
\* call of initialize_beam and of update_beam the number of blank
\* log-probability entries equals the number of candidate depths in
\* labels_list, for every number of blank-loop iterations, so the score
\* combination and the blank masking never fail on mismatched shapes.
C27_ListsAgree ==
  /\ BeamCallReady => Len(blank_logps_list) = Len(labels_list)
  /\ outcome # "ShapeError"

\* every beam slot of batch element b stands on the last valid frame
Terminal(b) == \A k \in Beam : batched_hyps[b][k].last_timestep = LastFrame(b)

ConfiguredBlankLogp(lp) == lp[blank_index]

\* C29: the blank log-probability charged for a skipped frame is the
\* log-probability of the configured blank symbol (index blank_index), the
\* symbol used to mask blank candidates, for every value of blank_index and
\* not only when blank_index is the last vocabulary index.
C29_ChargesConfiguredBlank ==
  /\ pc = "seed_loop" =>
        \A i \in 2..Len(blank_logps_list) : \A b \in Batch :
          blank_logps_list[i][b] =
            ConfiguredBlankLogp(Joint(joint_memo, b, i - 2, decoder_output[b]))
  /\ pc = "inner" =>
        \A i \in 2..Len(blank_logps_list) : \A b \in Batch : \A k \in Beam :
          blank_logps_list[i][b][k] =
            ConfiguredBlankLogp(
              Joint(joint_memo, b,
                    SafeTimeIndex(batched_hyps[b][k].last_timestep + i - 2,
                                  encoder_output_length[b]),
                    decoder_output[b][k]))

====
